---- MODULE Spec2Model ----
(***************************************************************************)
(* Model of the Telegram-to-Slack daily summary bot (src/main.py).         *)
(*                                                                         *)
(* Strings the code computes with are sequences of one-character strings;  *)
(* aware datetimes are records [utc, off]: an absolute instant and the     *)
(* UTC offset of the zone it is expressed in, both in ticks of half a      *)
(* second (the unit that makes the 4.5 s rate-limit sleep a whole number). *)
(***************************************************************************)
EXTENDS Integers, Sequences, FiniteSets, TLC

VARIABLES
    pc,             \* control location of the run
    argv,           \* sys.argv[1], or "" when no argument was given
    missing_env,    \* the required environment variables that are unset
    channels,       \* TELEGRAM_CHANNELS (insertion order) as the run sees it
    clock,          \* wall clock, an instant in ticks
    ch_idx,         \* position of the for-loop over TELEGRAM_CHANNELS
    fetches,        \* history: one record per fetch_yesterday_messages call
    messages,       \* main(): messages of the channel being processed
    msg_idx,        \* position of the for-loop over messages
    urls,           \* main(): extract_urls(msg['text']) of a scrape message
    url_idx,        \* position of the for-loop over urls
    content,        \* main(): the article content handed to the summarizer
    all_summaries,  \* main(): the aggregate of output items
    outcomes,       \* history: terminal state of every processed message
    gen_calls,      \* history: every call to the generation backend
    article_gets,   \* history: every url given to fetch_article_content
    summaries,      \* send_to_slack(): argument
    date,           \* send_to_slack(): argument (date label)
    chunks,         \* send_to_slack(): the partition into chunks
    chunk_idx,      \* send_to_slack(): position of the for-loop over chunks
    posts,          \* history: every submission to the Slack webhook
    slack_calls,    \* history: number of calls of send_to_slack
    disconnected,   \* history: "no", or how client.disconnect() ended
    raised,         \* an exception is propagating out of main()'s try block
    exit_code       \* process exit status once the run is over, else -1

vars == << pc, argv, missing_env, channels, clock, ch_idx, fetches, messages,
           msg_idx, urls, url_idx, content, all_summaries, outcomes,
           gen_calls, article_gets, summaries, date, chunks, chunk_idx,
           posts, slack_calls, disconnected, raised, exit_code >>

----------------------------------------------------------------------------
(* Bounds of the model *)

\* longest page of candidate messages the source returns for a channel
MaxMsgs == 2
\* largest number of candidate messages the source returns in one run, all
\* channels together
MaxRunMsgs == 3
\* largest number of output items handed to send_to_slack on its own
MaxItems == 46

----------------------------------------------------------------------------
(* Generic helpers *)

Min(a, b) == IF a < b THEN a ELSE b

Range(s) == { s[i] : i \in DOMAIN s }

\* Python slice s[lo:hi] for 0 <= lo
PySlice(s, lo, hi) == SubSeq(s, lo + 1, Min(hi, Len(s)))

RECURSIVE Flatten(_)
Flatten(ss) == IF ss = << >> THEN << >> ELSE Head(ss) \o Flatten(Tail(ss))

----------------------------------------------------------------------------
(* Time *)

\* timedelta(days=1), in ticks
DayTicks == 172800
\* utcoffset of pytz.timezone('Asia/Seoul'): +09:00, in ticks
KstOffset == 64800
\* time.sleep(4.5), in ticks
SleepTicks == 9

\* message.date.replace(tzinfo=pytz.UTC).astimezone(kst): the same instant,
\* expressed in the zone with the given offset
astimezone(d, off) == [utc |-> d.utc, off |-> off]

\* wall-clock reading of an aware datetime, in ticks since the local epoch
LocalTicks(d) == d.utc + d.off

\* d.replace(hour=0, minute=0, second=0, microsecond=0)
replace_midnight(d) ==
    [utc |-> d.utc - (LocalTicks(d) % DayTicks), off |-> d.off]

\* d.replace(hour=23, minute=59, second=59): the sub-second part is kept
replace_235959(d) ==
    [utc |-> d.utc - (LocalTicks(d) % DayTicks) + (23 * 3600 + 59 * 60 + 59) * 2
                 + (LocalTicks(d) % 2),
     off |-> d.off]

minus_one_day(d) == [utc |-> d.utc - DayTicks, off |-> d.off]

\* datetime.now(kst)
now_kst == [utc |-> clock, off |-> KstOffset]

\* comparison of aware datetimes compares instants
DtLess(a, b) == a.utc < b.utc

\* d.strftime('%H:%M')
strftime_HM(d) ==
    << (LocalTicks(d) % DayTicks) \div 7200,
       ((LocalTicks(d) % DayTicks) % 7200) \div 120 >>

\* d.strftime of year, month and day: the local calendar day, as a day number
strftime_Ymd(d) == LocalTicks(d) \div DayTicks

----------------------------------------------------------------------------
(* send_to_slack: chunking and payload building *)

chunk_size == 15

channel_display(channel_name) ==
    CASE channel_name = "ahboyashreads" -> "Ahboyreads"
      [] channel_name = "shoalresearch" -> "Shoal Research"
      [] OTHER -> channel_name

\* mutant: slices that run one item into the next chunk
MakeChunksOverlapping(ss) ==
    [ k \in 1 .. ((Len(ss) + chunk_size - 1) \div chunk_size) |->
        PySlice(ss, (k - 1) * chunk_size, (k - 1) * chunk_size + chunk_size + 1) ]

\* [summaries[i:i + chunk_size] for i in range(0, len(summaries), chunk_size)]
MakeChunks(ss) ==
    [ k \in 1 .. ((Len(ss) + chunk_size - 1) \div chunk_size) |->
        PySlice(ss, (k - 1) * chunk_size, (k - 1) * chunk_size + chunk_size) ]

\* header text: channel, date and the (chunk_idx/len(chunks)) annotation
HeaderBlock(display, d, cidx, nchunks) ==
    [ type |-> "header", channel |-> display, date |-> d,
      annotation |-> IF nchunks > 1 THEN << cidx, nchunks >> ELSE << >> ]

DividerBlock == [ type |-> "divider" ]

\* mutant: every summary takes four blocks, a time block and a divider
\* after each
ItemBlocksWithTime(summary, idx, start_idx, chunk_len) ==
    << [ type |-> "section", idx |-> idx, time_str |-> strftime_HM(summary.date),
         summary |-> summary.summary ],
       [ type |-> "section", link |-> summary.link ],
       [ type |-> "time", time_str |-> strftime_HM(summary.date) ],
       DividerBlock >>

\* the blocks of one summary: section, optional link section, optional divider
ItemBlocks(summary, idx, start_idx, chunk_len) ==
    << [ type |-> "section", idx |-> idx, time_str |-> strftime_HM(summary.date),
         summary |-> summary.summary ] >>
    \o (IF summary.link # << >>
          THEN << [ type |-> "section", link |-> summary.link ] >>
          ELSE << >>)
    \o (IF idx < start_idx + chunk_len THEN << DividerBlock >> ELSE << >>)

FooterBlock(total) == [ type |-> "context", total |-> total ]

\* mutant: a footer on every chunk
FooterOnEveryChunk(cidx, nchunks) == TRUE

\* the footer is added iff this is the last chunk
HasFooter(cidx, nchunks) == cidx = nchunks

\* body of the for-loop over chunks up to the payload
BuildBlocks(chunk, cidx, nchunks, total, display, d) ==
    LET start_idx == (cidx - 1) * chunk_size
    IN  << HeaderBlock(display, d, cidx, nchunks), DividerBlock >>
        \o Flatten([ j \in 1 .. Len(chunk) |->
                       ItemBlocks(chunk[j], start_idx + j, start_idx, Len(chunk)) ])
        \o (IF HasFooter(cidx, nchunks) THEN << FooterBlock(total) >> ELSE << >>)

\* send_to_slack up to the loop: the early return on no summaries
\* (nothing is posted), else the partition into chunks
SlackEnter ==
    /\ pc = "send_to_slack"
    /\ IF summaries = << >>
         THEN /\ pc' = "after_slack"
              /\ UNCHANGED << chunks, chunk_idx >>
         ELSE /\ chunks' = MakeChunks(summaries)
              /\ chunk_idx' = 1
              /\ pc' = "slack_post"
    /\ UNCHANGED << argv, slack_calls, disconnected, missing_env, channels,
                    clock, ch_idx, fetches, messages, msg_idx, urls, url_idx,
                    content, all_summaries, outcomes, gen_calls, article_gets,
                    summaries, date, posts, raised, exit_code >>

\* mutant: a failed post ends the loop
AfterPostStopOnFailure(cidx, n, ok) ==
    IF ok /\ cidx < n THEN "slack_post" ELSE "after_slack"

\* where a post leads: the try/except inside the loop body swallows a
\* failure, so the next chunk follows, or the return after the last one
AfterPost(cidx, n, ok) == IF cidx < n THEN "slack_post" ELSE "after_slack"

\* one iteration of the for-loop over chunks: build the payload and post it;
\* requests.post / raise_for_status may raise, which is caught and logged
SlackPost ==
    /\ pc = "slack_post"
    /\ \E ok \in BOOLEAN :
         /\ posts' = Append(posts,
                      [ chunk_idx |-> chunk_idx,
                        blocks |-> BuildBlocks(chunks[chunk_idx], chunk_idx,
                                      Len(chunks), Len(summaries),
                                      channel_display(summaries[1].channel), date),
                        ok |-> ok ])
         /\ pc' = AfterPost(chunk_idx, Len(chunks), ok)
    /\ chunk_idx' = chunk_idx + 1
    /\ UNCHANGED << argv, slack_calls, disconnected, missing_env, channels,
                    clock, ch_idx, fetches, messages, msg_idx, urls, url_idx,
                    content, all_summaries, outcomes, gen_calls, article_gets,
                    summaries, date, chunks, raised, exit_code >>

----------------------------------------------------------------------------
(* Text *)

\* the characters str.strip() removes and \s matches: those for which
\* str.isspace() holds. U+0009..U+000D, U+001C..U+001F, the space, U+0085
\* and U+00A0 are listed; the white space above U+00FF (U+1680,
\* U+2000..U+200A, U+2028, U+2029, U+202F, U+205F, U+3000) cannot be held
\* by a string of the module and occurs in no modelled text
Whitespace ==
    { "\t", "\n", "", "\f", "\r", "", "", "", "", " ",
      "", " " }

RECURSIVE lstrip(_)
lstrip(s) ==
    IF s # << >> /\ Head(s) \in Whitespace THEN lstrip(Tail(s)) ELSE s

RECURSIVE rstrip(_)
rstrip(s) ==
    IF s # << >> /\ s[Len(s)] \in Whitespace
      THEN rstrip(SubSeq(s, 1, Len(s) - 1)) ELSE s

\* str.strip()
strip(s) == rstrip(lstrip(s))

\* s[i:] starts with pat (i is 1-based)
StartsAt(s, i, pat) ==
    /\ i + Len(pat) - 1 <= Len(s)
    /\ SubSeq(s, i, i + Len(pat) - 1) = pat

\* pat in s
Contains(s, pat) == \E i \in 1 .. (Len(s) - Len(pat) + 1) : StartsAt(s, i, pat)

\* s.split('\n')
RECURSIVE split_lines(_)
split_lines(s) ==
    IF \A i \in 1 .. Len(s) : s[i] # "\n"
      THEN << s >>
      ELSE LET k == CHOOSE i \in 1 .. Len(s) :
                      /\ s[i] = "\n"
                      /\ \A j \in 1 .. (i - 1) : s[j] # "\n"
           IN  << SubSeq(s, 1, k - 1) >> \o split_lines(SubSeq(s, k + 1, Len(s)))

\* '\n'.join(lines)
RECURSIVE join_lines(_)
join_lines(lines) ==
    IF lines = << >> THEN << >>
    ELSE IF Len(lines) = 1 THEN lines[1]
    ELSE lines[1] \o << "\n" >> \o join_lines(Tail(lines))

\* [line.strip() for line in s.split('\n') if line.strip()]
RECURSIVE StripNonBlank(_)
StripNonBlank(lines) ==
    IF lines = << >> THEN << >>
    ELSE IF strip(Head(lines)) = << >> THEN StripNonBlank(Tail(lines))
    ELSE << strip(Head(lines)) >> \o StripNonBlank(Tail(lines))

nonblank_lines(s) == StripNonBlank(split_lines(s))

\* decimal digits of a natural number
RECURSIVE str_int(_)
str_int(n) ==
    LET digit == << "0", "1", "2", "3", "4", "5", "6", "7", "8", "9" >>
    IN  IF n < 10 THEN << digit[n + 1] >>
        ELSE str_int(n \div 10) \o << digit[(n % 10) + 1] >>

\* the characters of the configured channel names
NameChars(channel_name) ==
    CASE channel_name = "ahboyashreads" ->
           << "a", "h", "b", "o", "y", "a", "s", "h", "r", "e", "a", "d", "s" >>
      [] channel_name = "shoalresearch" ->
           << "s", "h", "o", "a", "l", "r", "e", "s", "e", "a", "r", "c", "h" >>

----------------------------------------------------------------------------
(* extract_urls *)

HttpScheme == << "h", "t", "t", "p", ":", "/", "/" >>
HttpsScheme == << "h", "t", "t", "p", "s", ":", "/", "/" >>

\* the characters the url pattern excludes: \s and <>"{}|\^[] (the
\* backquote, which no modelled text holds, is left out: a string of the
\* module cannot hold it)
UrlStop == Whitespace \cup { "<", ">", "\"", "{", "}", "|", "\\", "^", "[", "]" }

\* length of the scheme 'https?://' matched at position i, 0 when none
SchemeLenAt(s, i) ==
    IF StartsAt(s, i, HttpsScheme) THEN Len(HttpsScheme)
    ELSE IF StartsAt(s, i, HttpScheme) THEN Len(HttpScheme)
    ELSE 0

\* first position at or after i holding a character the pattern excludes
RECURSIVE UrlEnd(_, _)
UrlEnd(s, i) ==
    IF i > Len(s) \/ s[i] \in UrlStop THEN i ELSE UrlEnd(s, i + 1)

\* re.findall(url_pattern, text): the matches from position i on, as a
\* function of i
FindUrlsFrom(s) ==
    LET from[i \in 1 .. (Len(s) + 1)] ==
          IF i > Len(s) THEN << >>
          ELSE LET n == SchemeLenAt(s, i)
                   e == UrlEnd(s, i + n)
               IN  IF n > 0 /\ e > i + n
                     THEN << SubSeq(s, i, e - 1) >> \o from[e]
                     ELSE from[i + 1]
    IN  from

\* mutant: no url is found in any text
extract_no_urls(text) == << >>

extract_urls(text) == FindUrlsFrom(text)[1]

----------------------------------------------------------------------------
(* fetch_yesterday_messages *)

TMePrefix == << "h", "t", "t", "p", "s", ":", "/", "/", "t", ".", "m", "e", "/" >>

\* f"https://t.me/{channel}/{message.id}"
msg_link(channel, id) == TMePrefix \o NameChars(channel) \o << "/" >> \o str_int(id)

\* yesterday_start: (now_kst - timedelta(days=1)).replace(hour=0, ...)
yesterday_start_of(now) == replace_midnight(minus_one_day(now))

\* yesterday_end: yesterday_start.replace(hour=23, minute=59, second=59)
yesterday_end_of(now) == replace_235959(yesterday_start_of(now))

\* getattr(message, 'text', '') or "": the message's text attribute, the
\* empty string when it has none
message_text_property(message) ==
    IF "text" \in DOMAIN message THEN message.text ELSE << >>

\* the text the loop body extracts from a message: message.message, or the
\* caption when there is no text but media
extract_text(message) ==
    IF message.message = << >> /\ message.media
      THEN message_text_property(message)
      ELSE message.message

\* "if msg_date_kst < yesterday_start: break"
StopsScan(d, start) == DtLess(d, start)

\* mutant: the window's last second counts as too new
TooNewInclusive(d, end) == ~DtLess(d, end)

\* "if msg_date_kst > yesterday_end: continue"
TooNew(d, end) == DtLess(end, d)

\* "if not text.strip(): continue"
IsEmptyText(text) == strip(text) = << >>

\* the async-for over client.iter_messages, from candidate i on, having kept
\* acc; fail_at is the candidate at which the source raises (-1: never)
RECURSIVE FetchLoop(_, _, _, _, _, _, _)
FetchLoop(feed, i, fail_at, acc, start, end, channel) ==
    IF fail_at = i THEN [ failed |-> TRUE, kept |-> acc, result |-> << >> ]
    ELSE IF i > Len(feed) THEN [ failed |-> FALSE, kept |-> acc, result |-> acc ]
    ELSE LET message == feed[i]
             msg_date_kst == astimezone(message.date, KstOffset)
             text == extract_text(message)
         IN  IF StopsScan(msg_date_kst, start)
               THEN [ failed |-> FALSE, kept |-> acc, result |-> acc ]
             ELSE IF TooNew(msg_date_kst, end) \/ IsEmptyText(text)
               THEN FetchLoop(feed, i + 1, fail_at, acc, start, end, channel)
             ELSE FetchLoop(feed, i + 1, fail_at,
                            Append(acc, [ id |-> message.id, text |-> text,
                                          date |-> msg_date_kst,
                                          link |-> msg_link(channel, message.id) ]),
                            start, end, channel)

\* mutant: the except branch returns what was read before the error
fetch_keeping_partial(channel, now, feed, fail_at) ==
    LET start == yesterday_start_of(now)
        end == yesterday_end_of(now)
        run == FetchLoop(feed, 1, fail_at, << >>, start, end, channel)
    IN  [ channel |-> channel, start |-> start, end |-> end, feed |-> feed,
          fail_at |-> fail_at,
          failed |-> (fail_at = 0 \/ run.failed),
          kept |-> IF fail_at = 0 THEN << >> ELSE run.kept,
          result |-> IF fail_at = 0 THEN << >> ELSE run.kept ]

\* fetch_yesterday_messages(client, channel) at wall-clock time now, the
\* source holding feed (newest first); fail_at = 0: get_entity raises
fetch_yesterday_messages(channel, now, feed, fail_at) ==
    LET start == yesterday_start_of(now)
        end == yesterday_end_of(now)
        run == FetchLoop(feed, 1, fail_at, << >>, start, end, channel)
    IN  [ channel |-> channel, start |-> start, end |-> end, feed |-> feed,
          fail_at |-> fail_at,
          failed |-> (fail_at = 0 \/ run.failed),
          kept |-> IF fail_at = 0 THEN << >> ELSE run.kept,
          result |-> IF fail_at = 0 THEN << >> ELSE run.result ]

----------------------------------------------------------------------------
(* fetch_article_content *)

\* absent and present results of the functions that return Optional[str]
None == [ present |-> FALSE ]
Some(v) == [ present |-> TRUE, value |-> v ]

\* truth value of an Optional[str]: neither None nor the empty string
Truthy(o) == o.present /\ o.value # << >>

min_content_len == 300
paywall_len == 1000
max_content_len == 5000
fallback_len == 200
max_summary_lines == 3

\* the two Korean keywords are written with the romanised names of their
\* syllables, each name standing for one character
paywall_keywords ==
    << << "s", "i", "g", "n", " ", "u", "p" >>,
       << "s", "u", "b", "s", "c", "r", "i", "b", "e" >>,
       << "s", "u", "b", "s", "c", "r", "i", "p", "t", "i", "o", "n" >>,
       << "p", "r", "e", "m", "i", "u", "m" >>,
       << "yu", "ryo" >>,
       << "gu", "dok" >>,
       << "b", "e", "c", "o", "m", "e", " ", "a", " ", "m", "e", "m", "b", "e", "r" >>,
       << "j", "o", "i", "n", " ", "n", "o", "w" >>,
       << "c", "r", "e", "a", "t", "e", " ", "a", "c", "c", "o", "u", "n", "t" >>,
       << "l", "o", "g", " ", "i", "n", " ", "t", "o", " ", "r", "e", "a", "d" >>,
       << "m", "e", "m", "b", "e", "r", "s", " ", "o", "n", "l", "y" >> >>

\* str.lower() on one character: the cased characters up to U+00FF (A-Z
\* and the Latin-1 capitals U+00C0..U+00DE without U+00D7); characters
\* above U+00FF cannot be held by a string of the module
lower_char(c) ==
    LET upper == << "A", "B", "C", "D", "E", "F", "G", "H", "I", "J", "K", "L", "M",
                    "N", "O", "P", "Q", "R", "S", "T", "U", "V", "W", "X", "Y", "Z",
                    "À", "Á", "Â", "Ã", "Ä", "Å", "Æ", "Ç", "È", "É", "Ê", "Ë", "Ì",
                    "Í", "Î", "Ï", "Ð", "Ñ", "Ò", "Ó", "Ô", "Õ", "Ö", "Ø", "Ù", "Ú",
                    "Û", "Ü", "Ý", "Þ" >>
        lowercase == << "a", "b", "c", "d", "e", "f", "g", "h", "i", "j", "k", "l", "m",
                        "n", "o", "p", "q", "r", "s", "t", "u", "v", "w", "x", "y", "z",
                        "à", "á", "â", "ã", "ä", "å", "æ", "ç", "è", "é", "ê", "ë", "ì",
                        "í", "î", "ï", "ð", "ñ", "ò", "ó", "ô", "õ", "ö", "ø", "ù", "ú",
                        "û", "ü", "ý", "þ" >>
    IN  IF \E k \in 1 .. 56 : upper[k] = c
          THEN lowercase[CHOOSE k \in 1 .. 56 : upper[k] = c]
          ELSE c

lower(s) == [ i \in 1 .. Len(s) |-> lower_char(s[i]) ]

\* any(keyword in content_lower for keyword in paywall_keywords)
HasPaywallKeyword(text) ==
    \E k \in 1 .. Len(paywall_keywords) : Contains(lower(text), paywall_keywords[k])

\* mutant: the paywall gate applies whatever the length
fetch_article_always_gated(page) ==
    IF ~page.ok THEN None
    ELSE IF page.text = << >> THEN None
    ELSE LET cleaned == join_lines(nonblank_lines(page.text))
         IN  IF Len(cleaned) < min_content_len THEN None
             ELSE IF HasPaywallKeyword(cleaned) THEN None
             ELSE IF Len(cleaned) > max_content_len
               THEN Some(PySlice(cleaned, 0, max_content_len))
             ELSE Some(cleaned)

\* fetch_article_content(url), the page answering with `page`: page.ok is
\* FALSE when the request or raise_for_status raises, page.text is the text
\* extracted from the article element or the body (empty when there is none)
fetch_article_content(page) ==
    IF ~page.ok THEN None
    ELSE IF page.text = << >> THEN None
    ELSE LET cleaned == join_lines(nonblank_lines(page.text))
         IN  IF Len(cleaned) < min_content_len THEN None
             ELSE IF HasPaywallKeyword(cleaned) /\ Len(cleaned) < paywall_len THEN None
             ELSE IF Len(cleaned) > max_content_len
               THEN Some(PySlice(cleaned, 0, max_content_len))
             ELSE Some(cleaned)

\* mutant: no link is passed over
SkipsNothing(url) == FALSE

\* "if 'x.com' in url or 't.me' in url or 'twitter.com' in url: continue"
IsSkippedDomain(url) ==
    \/ Contains(url, << "x", ".", "c", "o", "m" >>)
    \/ Contains(url, << "t", ".", "m", "e" >>)
    \/ Contains(url, << "t", "w", "i", "t", "t", "e", "r", ".", "c", "o", "m" >>)

----------------------------------------------------------------------------
(* Generation client *)

Ellipsis == << ".", ".", "." >>

\* mutant: the fallback without its ellipsis
fallback_without_ellipsis(text) == PySlice(text, 0, fallback_len)

\* the except branch of summarize_with_gemini:
\* text[:200] + "..." if len(text) > 200 else text
summarize_fallback(text) ==
    IF Len(text) > fallback_len THEN PySlice(text, 0, fallback_len) \o Ellipsis ELSE text

\* the post-processing of summarize_with_gemini on a backend answer
summarize_lines(answer) ==
    LET summary == strip(answer)
        lines == nonblank_lines(summary)
    IN  IF Len(lines) > max_summary_lines
          THEN join_lines(PySlice(lines, 0, max_summary_lines))
        ELSE IF Len(lines) < max_summary_lines THEN join_lines(lines)
        ELSE summary

\* summarize_with_gemini(text, api_key), the backend answering with resp:
\* resp.ok is FALSE when the request raises or the answer is malformed
summarize_with_gemini(text, resp) ==
    IF resp.ok THEN summarize_lines(resp.text) ELSE summarize_fallback(text)

\* mutant: a failed translation falls back to the original text
translate_with_fallback(text, resp) ==
    IF resp.ok THEN Some(strip(resp.text)) ELSE Some(summarize_fallback(text))

\* translate_to_korean(text, api_key), the backend answering with resp
translate_to_korean(text, resp) ==
    IF resp.ok THEN Some(strip(resp.text)) ELSE None

\* the time.sleep(4.5) after a backend answer: the except branches skip it
SleepAfter(resp) == IF resp.ok THEN SleepTicks ELSE 0

----------------------------------------------------------------------------
(* Configuration *)

\* TELEGRAM_CHANNELS, in insertion order
TELEGRAM_CHANNELS == << "ahboyashreads", "shoalresearch" >>

process_type(channel_name) ==
    CASE channel_name = "ahboyashreads" -> "scrape"
      [] channel_name = "shoalresearch" -> "translate"

\* required_vars of validate_config
required_vars ==
    { "TELEGRAM_API_ID", "TELEGRAM_API_HASH", "GEMINI_API_KEY", "SLACK_WEBHOOK_URL" }

----------------------------------------------------------------------------
(* Inputs of the model *)

\* command-line arguments: none, each configured channel, an unknown one
Args == { "", "ahboyashreads", "shoalresearch", "nosuchchannel" }

\* noon of day 2 in Seoul, the wall clock at which a run starts
StartClock == 2 * DayTicks + (DayTicks \div 2) - KstOffset

\* local midnight opening day n in Seoul, as an instant
KstMidnight(n) == n * DayTicks - KstOffset

\* wall clocks at which a run starts: noon of day 2, and one rate-limit
\* delay before the midnight that ends day 2
StartClocks == { StartClock, KstMidnight(3) - SleepTicks }

TextPlain == << "g", "m", " ", "B", "T", "C" >>
\* "n https://t.me/c https://a.io/1 https://x.com/p http://b.io/2
\*  https://twitter.com/q"
TextLinks ==
    << "n", " ", "h", "t", "t", "p", "s", ":", "/", "/", "t", ".", "m", "e",
       "/", "c", " ", "h", "t", "t", "p", "s", ":", "/", "/", "a", ".", "i",
       "o", "/", "1", " ", "h", "t", "t", "p", "s", ":", "/", "/", "x", ".",
       "c", "o", "m", "/", "p", " ", "h", "t", "t", "p", ":", "/", "/", "b",
       ".", "i", "o", "/", "2", " ", "h", "t", "t", "p", "s", ":", "/", "/",
       "t", "w", "i", "t", "t", "e", "r", ".", "c", "o", "m", "/", "q" >>

\* message texts of a run
MainTexts == { TextPlain, TextLinks }

\* a message of the source: Telegram dates are whole seconds, in UTC; the
\* text attribute of a message the client library builds is its raw text
\* when that carries no formatting entities
TgMessage(id, t, text, media) ==
    [ id |-> id, date |-> [ utc |-> t, off |-> 0 ], message |-> text,
      text |-> text, media |-> media ]

\* pages of a run, newest first: messages of day 1, one minute apart
MainFeeds ==
    UNION { { [ i \in 1 .. n |->
                 TgMessage(n - i + 1, KstMidnight(1) + (DayTicks \div 2) - i * 120,
                           texts[i], FALSE) ] :
              texts \in [ 1 .. n -> MainTexts ] } : n \in 0 .. MaxMsgs }

\* an article text of exactly n characters, in words of six letters
ArticleText(n) == [ i \in 1 .. n |-> IF i % 7 = 0 THEN " " ELSE "w" ]

\* answers of a linked page: a failed request, an article of 300 characters
Pages == { [ ok |-> FALSE, text |-> << >> ],
           [ ok |-> TRUE, text |-> ArticleText(min_content_len) ] }

GenTwoLines == << "k", "1", "\n", "k", "2" >>

\* answers of the generation backend: a failure, a text of two lines, a
\* text of nothing but white space
GenResponses == { [ ok |-> FALSE, text |-> << >> ],
                  [ ok |-> TRUE, text |-> GenTwoLines ],
                  [ ok |-> TRUE, text |-> << " ", "\n" >> ] }

\* points at which the source fails during a fetch: never (-1), at
\* get_entity (0), or when asked for candidate k
FailPoints(feed) == { -1 } \cup (0 .. (Len(feed) + 1))

----------------------------------------------------------------------------
(* The run: __main__ and main() *)

\* the __main__ block: the optional channel filter
Boot ==
    /\ pc = "boot"
    /\ IF argv = ""
         THEN /\ pc' = "validate"
              /\ UNCHANGED << channels, exit_code >>
         ELSE IF argv \in Range(TELEGRAM_CHANNELS)
           THEN /\ channels' = << argv >>
                /\ pc' = "validate"
                /\ UNCHANGED exit_code
           ELSE /\ exit_code' = 1
                /\ pc' = "exited"
                /\ UNCHANGED channels
    /\ UNCHANGED << argv, slack_calls, disconnected, missing_env, clock,
                    ch_idx, fetches, messages, msg_idx, urls, url_idx,
                    content, all_summaries, outcomes, gen_calls, article_gets,
                    summaries, date, chunks, chunk_idx, posts, raised >>

\* mutant: a missing variable is reported and the run goes on
validate_config_lenient ==
    /\ pc = "validate"
    /\ pc' = "connect"
    /\ UNCHANGED << argv, slack_calls, disconnected, missing_env, channels,
                    clock, ch_idx, fetches, messages, msg_idx, urls, url_idx,
                    content, all_summaries, outcomes, gen_calls, article_gets,
                    summaries, date, chunks, chunk_idx, posts, raised,
                    exit_code >>

\* validate_config: sys.exit(1) when a required variable is missing
validate_config ==
    /\ pc = "validate"
    /\ IF missing_env # { }
         THEN /\ exit_code' = 1
              /\ pc' = "exited"
         ELSE /\ pc' = "connect"
              /\ UNCHANGED exit_code
    /\ UNCHANGED << argv, slack_calls, disconnected, missing_env, channels,
                    clock, ch_idx, fetches, messages, msg_idx, urls, url_idx,
                    content, all_summaries, outcomes, gen_calls, article_gets,
                    summaries, date, chunks, chunk_idx, posts, raised >>

\* mutant: a failed client.start() is swallowed
AfterStartSwallowed(ok) == "channel_loop"

\* where a failed or successful client.start() leads
AfterStart(ok) == IF ok THEN "channel_loop" ELSE "finally"

\* how the start of main() ends: the constructor TelegramClient(...) raises,
\* client.start() raises, or the client is connected
ConnectOutcomes == { "ctor_raises", "start_raises", "connected" }

\* setup_session_file and TelegramClient(...), which stand before the try
\* block: an exception of the constructor leaves main() at once, with
\* neither the except nor the finally clause run, and ends the process
\* with status 1. Then, inside the try block, client.start(): when it
\* raises, the except clause re-raises and the finally clause runs
Connect ==
    /\ pc = "connect"
    /\ \E outcome \in ConnectOutcomes :
         IF outcome = "ctor_raises"
           THEN /\ pc' = "exited"
                /\ exit_code' = 1
                /\ UNCHANGED raised
           ELSE /\ pc' = AfterStart(outcome = "connected")
                /\ raised' = (outcome = "start_raises")
                /\ UNCHANGED exit_code
    /\ all_summaries' = << >>
    /\ UNCHANGED << argv, slack_calls, disconnected, missing_env, channels,
                    clock, ch_idx, fetches, messages, msg_idx, urls, url_idx,
                    content, outcomes, gen_calls, article_gets, summaries,
                    date, chunks, chunk_idx, posts >>

\* number of candidates the source has returned to the fetches fs
RECURSIVE CandidatesOf(_)
CandidatesOf(fs) ==
    IF fs = << >> THEN 0 ELSE Len(Head(fs).feed) + CandidatesOf(Tail(fs))

\* pages the source may return to the next fetch of a run
RunFeeds == { feed \in MainFeeds : CandidatesOf(fetches) + Len(feed) <= MaxRunMsgs }

\* head of the for-loop over TELEGRAM_CHANNELS: fetch the channel's
\* messages; "if not messages: continue"
FetchChannel ==
    /\ pc = "channel_loop"
    /\ ch_idx <= Len(channels)
    /\ \E feed \in RunFeeds : \E fail_at \in FailPoints(feed) :
         LET f == fetch_yesterday_messages(channels[ch_idx], now_kst, feed, fail_at)
         IN  /\ fetches' = Append(fetches, f)
             /\ messages' = f.result
             /\ IF f.result = << >>
                  THEN /\ ch_idx' = ch_idx + 1
                       /\ pc' = "channel_loop"
                  ELSE /\ pc' = "message"
                       /\ UNCHANGED ch_idx
    /\ msg_idx' = 1
    /\ UNCHANGED << argv, slack_calls, disconnected, missing_env, channels,
                    clock, urls, url_idx, content, all_summaries, outcomes,
                    gen_calls, article_gets, summaries, date, chunks,
                    chunk_idx, posts, raised, exit_code >>

\* the message and channel the loops are at
msg == messages[msg_idx]
channel_name == channels[ch_idx]

\* a or b on strings
OrElse(a, b) == IF a # << >> THEN a ELSE b

\* mutant: the item is stamped with the date of the channel's first message
OutputItemStale(summary_text, article_url) ==
    [ summary |-> summary_text, date |-> messages[1].date,
      link |-> OrElse(article_url, msg.link), channel |-> channel_name ]

\* the dict appended to all_summaries
OutputItem(summary_text, article_url) ==
    [ summary |-> summary_text, date |-> msg.date,
      link |-> OrElse(article_url, msg.link), channel |-> channel_name ]

\* "if summary_text:" guards the append; a falsy summary_text skips it
Emits(summary_text) == summary_text # << >>

\* end of the for-loop body over messages: the message is dropped
\* (continue) or its item is appended; then the next message or channel
FinishMessage(summary_text, article_url) ==
    /\ outcomes' = Append(outcomes,
                     [ channel |-> channel_name, id |-> msg.id,
                       state |-> IF Emits(summary_text) THEN "emitted" ELSE "dropped" ])
    /\ all_summaries' = IF Emits(summary_text)
                          THEN Append(all_summaries, OutputItem(summary_text, article_url))
                          ELSE all_summaries
    /\ IF msg_idx < Len(messages)
         THEN /\ msg_idx' = msg_idx + 1
              /\ pc' = "message"
              /\ UNCHANGED ch_idx
         ELSE /\ ch_idx' = ch_idx + 1
              /\ pc' = "channel_loop"
              /\ UNCHANGED msg_idx

\* record of one call to the generation backend
GenCall(kind, input, resp, returned) ==
    [ kind |-> kind, at |-> clock, ok |-> resp.ok, answer |-> resp.text,
      channel |-> channel_name, id |-> msg.id, input |-> input,
      returned |-> returned ]

\* translate branch of the loop body: translate the message text, skip the
\* message when the translation is falsy, else link it to its first url
TranslateMessage ==
    /\ pc = "message"
    /\ process_type(channel_name) = "translate"
    /\ \E resp \in GenResponses :
         LET r == translate_to_korean(msg.text, resp)
             found == extract_urls(msg.text)
         IN  /\ gen_calls' = Append(gen_calls, GenCall("translate", msg.text, resp, r))
             /\ clock' = clock + SleepAfter(resp)
             /\ IF Truthy(r)
                  THEN FinishMessage(r.value,
                                     IF found # << >> THEN found[1] ELSE msg.link)
                  ELSE FinishMessage(<< >>, << >>)
    /\ UNCHANGED << argv, slack_calls, disconnected, missing_env, channels,
                    fetches, messages, urls, url_idx, content, article_gets,
                    summaries, date, chunks, chunk_idx, posts, raised,
                    exit_code >>

\* scrape branch of the loop body: extract the urls of the message
ScrapeMessage ==
    /\ pc = "message"
    /\ process_type(channel_name) = "scrape"
    /\ urls' = extract_urls(msg.text)
    /\ url_idx' = 1
    /\ pc' = "scrape_url"
    /\ UNCHANGED << argv, slack_calls, disconnected, missing_env, channels,
                    clock, ch_idx, fetches, messages, msg_idx, content,
                    all_summaries, outcomes, gen_calls, article_gets,
                    summaries, date, chunks, chunk_idx, posts, raised,
                    exit_code >>

\* the for-loop over urls ended (or there were none) with summary_text
\* still None: the message is skipped
ScrapeNoContent ==
    /\ pc = "scrape_url"
    /\ url_idx > Len(urls)
    /\ FinishMessage(<< >>, << >>)
    /\ UNCHANGED << argv, slack_calls, disconnected, missing_env, channels,
                    clock, fetches, messages, urls, url_idx, content,
                    gen_calls, article_gets, summaries, date, chunks,
                    chunk_idx, posts, raised, exit_code >>

\* a url on x.com, t.me or twitter.com is passed over
ScrapeSkipUrl ==
    /\ pc = "scrape_url"
    /\ url_idx <= Len(urls)
    /\ IsSkippedDomain(urls[url_idx])
    /\ url_idx' = url_idx + 1
    /\ UNCHANGED << pc, argv, slack_calls, disconnected, missing_env,
                    channels, clock, ch_idx, fetches, messages, msg_idx, urls,
                    content, all_summaries, outcomes, gen_calls, article_gets,
                    summaries, date, chunks, chunk_idx, posts, raised,
                    exit_code >>

\* "if content and len(content) >= 300"
Usable(c) == Truthy(c) /\ Len(c.value) >= min_content_len

\* fetch_article_content on the url the loop is at; usable content goes to
\* the summarizer, anything else to the next url
ScrapeFetchUrl ==
    /\ pc = "scrape_url"
    /\ url_idx <= Len(urls)
    /\ ~IsSkippedDomain(urls[url_idx])
    /\ \E page \in Pages :
         LET c == fetch_article_content(page)
         IN  /\ article_gets' = Append(article_gets,
                                  [ channel |-> channel_name, id |-> msg.id,
                                    url |-> urls[url_idx], returned |-> c,
                                    usable |-> Usable(c) ])
             /\ IF Usable(c)
                  THEN /\ content' = c.value
                       /\ pc' = "summarize"
                       /\ UNCHANGED url_idx
                  ELSE /\ url_idx' = url_idx + 1
                       /\ UNCHANGED << pc, content >>
    /\ UNCHANGED << argv, slack_calls, disconnected, missing_env, channels,
                    clock, ch_idx, fetches, messages, msg_idx, urls,
                    all_summaries, outcomes, gen_calls, summaries, date,
                    chunks, chunk_idx, posts, raised, exit_code >>

\* summarize_with_gemini on the fetched content, article_url = url, break;
\* then the rest of the loop body
Summarize ==
    /\ pc = "summarize"
    /\ \E resp \in GenResponses :
         LET summary_text == summarize_with_gemini(content, resp)
         IN  /\ gen_calls' = Append(gen_calls,
                               GenCall("summarize", content, resp, Some(summary_text)))
             /\ clock' = clock + SleepAfter(resp)
             /\ FinishMessage(summary_text, urls[url_idx])
    /\ UNCHANGED << argv, slack_calls, disconnected, missing_env, channels,
                    fetches, messages, urls, url_idx, content, article_gets,
                    summaries, date, chunks, chunk_idx, posts, raised,
                    exit_code >>

\* after the channel loop: the date label, and the call of send_to_slack
\* with the aggregate (both branches of "if summaries" make the call)
CallSendToSlack ==
    /\ pc = "channel_loop"
    /\ ch_idx > Len(channels)
    /\ summaries' = all_summaries
    /\ date' = strftime_Ymd(minus_one_day(now_kst))
    /\ slack_calls' = slack_calls + 1
    /\ pc' = "send_to_slack"
    /\ UNCHANGED << argv, disconnected, missing_env, channels, clock, ch_idx,
                    fetches, messages, msg_idx, urls, url_idx, content,
                    all_summaries, outcomes, gen_calls, article_gets, chunks,
                    chunk_idx, posts, raised, exit_code >>

\* exit status of the process: an exception leaving main() ends it with 1
ExitCode(failed) == IF failed THEN 1 ELSE 0

\* the finally clause: client.disconnect(), which may raise too; the run
\* then ends, normally or with the exception that is propagating
Disconnect ==
    /\ pc \in { "after_slack", "finally" }
    /\ \E ok \in BOOLEAN :
         /\ disconnected' = IF ok THEN "ok" ELSE "failed"
         /\ exit_code' = ExitCode(raised \/ ~ok)
    /\ pc' = "exited"
    /\ UNCHANGED << argv, slack_calls, missing_env, channels, clock, ch_idx,
                    fetches, messages, msg_idx, urls, url_idx, content,
                    all_summaries, outcomes, gen_calls, article_gets,
                    summaries, date, chunks, chunk_idx, posts, raised >>

\* everything but the configuration, the clock and the control location,
\* as it is before a run has done anything
Untouched ==
    /\ channels = TELEGRAM_CHANNELS
    /\ ch_idx = 1
    /\ fetches = << >>
    /\ messages = << >>
    /\ msg_idx = 1
    /\ urls = << >>
    /\ url_idx = 1
    /\ content = << >>
    /\ all_summaries = << >>
    /\ outcomes = << >>
    /\ gen_calls = << >>
    /\ article_gets = << >>
    /\ chunks = << >>
    /\ chunk_idx = 1
    /\ posts = << >>
    /\ disconnected = "no"
    /\ raised = FALSE
    /\ exit_code = -1

Init ==
    /\ pc = "boot"
    /\ argv \in Args
    /\ missing_env \in SUBSET required_vars
    /\ clock \in StartClocks
    /\ summaries = << >>
    /\ date = 0
    /\ slack_calls = 0
    /\ Untouched

Next ==
    \/ Boot
    \/ validate_config
    \/ Connect
    \/ FetchChannel
    \/ TranslateMessage
    \/ ScrapeMessage
    \/ ScrapeNoContent
    \/ ScrapeSkipUrl
    \/ ScrapeFetchUrl
    \/ Summarize
    \/ CallSendToSlack
    \/ SlackEnter
    \/ SlackPost
    \/ Disconnect

Spec == Init /\ [][Next]_vars

----------------------------------------------------------------------------
(* send_to_slack on its own: any list of output items *)

\* n output items, one minute apart; links: "all", "none" or "some" (every
\* other item); origin: one channel, or "both" (first channel's items first)
DeliverItems(n, links, origin) ==
    [ i \in 1 .. n |->
        LET ch == IF origin = "both"
                    THEN (IF 2 * i <= n THEN TELEGRAM_CHANNELS[1] ELSE TELEGRAM_CHANNELS[2])
                    ELSE origin
        IN  [ summary |-> GenTwoLines,
              date |-> [ utc |-> KstMidnight(1) + i * 120, off |-> KstOffset ],
              link |-> IF links = "all" \/ (links = "some" /\ i % 2 = 1)
                         THEN msg_link(ch, i) ELSE << >>,
              channel |-> ch ] ]

DeliverInputs ==
    { DeliverItems(n, links, origin) :
        n \in 0 .. MaxItems, links \in { "all", "none", "some" },
        origin \in Range(TELEGRAM_CHANNELS) \cup { "both" } }

InitDeliver ==
    /\ pc = "send_to_slack"
    /\ argv = ""
    /\ missing_env = { }
    /\ clock = StartClock
    /\ summaries \in DeliverInputs
    /\ date = strftime_Ymd(minus_one_day(now_kst))
    /\ slack_calls = 1
    /\ Untouched

NextDeliver ==
    \/ SlackEnter
    \/ SlackPost

SpecDeliver == InitDeliver /\ [][NextDeliver]_vars

----------------------------------------------------------------------------
(* fetch_yesterday_messages on its own: any newest-first page *)

\* instants around the window of day 1: the second before it opens, its
\* first second, its middle, its last second, the second after it closes
CandidateInstants ==
    { KstMidnight(1) - 2, KstMidnight(1), KstMidnight(1) + (DayTicks \div 2),
      KstMidnight(2) - 2, KstMidnight(2) }

\* text and media of a candidate: no text, no text under media, blank text
\* (a space, a form feed, a newline), plain text, padded text under media
CandidateBodies ==
    { << << >>, FALSE >>, << << >>, TRUE >>, << << " ", "\f", "\n" >>, FALSE >>,
      << TextPlain, FALSE >>, << << " ", "x", " " >>, TRUE >> }

\* pages of up to MaxMsgs candidates, newest first (ids and dates descending)
CandidateFeeds ==
    UNION { { [ i \in 1 .. n |-> TgMessage(n - i + 1, ts[i], bs[i][1], bs[i][2]) ] :
              ts \in { t \in [ 1 .. n -> CandidateInstants ] :
                         \A i \in 1 .. n : \A j \in i .. n : t[i] >= t[j] },
              bs \in [ 1 .. n -> CandidateBodies ] } : n \in 0 .. MaxMsgs }

\* wall clocks during day 2 in Seoul: its first instant, noon, its last
FetchClocks == { KstMidnight(2), StartClock, KstMidnight(3) - 1 }

InitFetch ==
    /\ pc = "fetch_only"
    /\ argv = ""
    /\ missing_env = { }
    /\ clock \in FetchClocks
    /\ summaries = << >>
    /\ date = 0
    /\ slack_calls = 0
    /\ Untouched

\* one call of fetch_yesterday_messages
FetchOnly ==
    /\ pc = "fetch_only"
    /\ \E ch \in Range(channels) : \E feed \in CandidateFeeds :
       \E fail_at \in FailPoints(feed) :
         LET f == fetch_yesterday_messages(ch, now_kst, feed, fail_at)
         IN  /\ fetches' = << f >>
             /\ messages' = f.result
    /\ pc' = "fetched"
    /\ UNCHANGED << argv, slack_calls, disconnected, missing_env, channels,
                    clock, ch_idx, msg_idx, urls, url_idx, content,
                    all_summaries, outcomes, gen_calls, article_gets,
                    summaries, date, chunks, chunk_idx, posts, raised,
                    exit_code >>

NextFetch == FetchOnly

SpecFetch == InitFetch /\ [][NextFetch]_vars

----------------------------------------------------------------------------
(* summarize_with_gemini on its own, beside the runs: any input text *)

\* inputs around the 200-character cut of the fallback
SummarizeInputs == { ArticleText(n) : n \in { 0, 1, 199, 200, 201, 300 } }

InitSummarize ==
    /\ pc = "summarize_only"
    /\ argv = ""
    /\ missing_env = { }
    /\ clock = StartClock
    /\ summaries = << >>
    /\ date = 0
    /\ slack_calls = 0
    /\ channels = TELEGRAM_CHANNELS
    /\ ch_idx = 1
    /\ fetches = << >>
    /\ messages = << >>
    /\ msg_idx = 1
    /\ urls = << >>
    /\ url_idx = 1
    /\ content \in SummarizeInputs
    /\ all_summaries = << >>
    /\ outcomes = << >>
    /\ gen_calls = << >>
    /\ article_gets = << >>
    /\ chunks = << >>
    /\ chunk_idx = 1
    /\ posts = << >>
    /\ disconnected = "no"
    /\ raised = FALSE
    /\ exit_code = -1

\* answers of one to five lines: clean, with blank lines between the lines,
\* with padding around them
SummarizeAnswers ==
    { << "a" >>,
      << "a", "\n", "b", "\n", "c" >>,
      << "a", "\n", "\n", "b", "\n", "c" >>,
      << "a", " ", "\n", " ", "b", "\n", "c" >>,
      << "a", "\n", "b", "\n", "\n", "c", "\n", "d" >>,
      << "a", "\n", "b", "\n", "c", "\n", "d", "\n", "e" >>,
      << "\n", "a", "\n", " ", "\n", "b", " ", "\n" >> }

\* answers of the backend to a call of summarize_with_gemini on its own
SummarizeResponses ==
    GenResponses \cup { [ ok |-> TRUE, text |-> t ] : t \in SummarizeAnswers }

\* one call of summarize_with_gemini outside a run
SummarizeOnly ==
    /\ pc = "summarize_only"
    /\ \E resp \in SummarizeResponses :
         /\ gen_calls' = << [ kind |-> "summarize", at |-> clock, ok |-> resp.ok,
                              answer |-> resp.text,
                              channel |-> "", id |-> 0, input |-> content,
                              returned |-> Some(summarize_with_gemini(content, resp)) ] >>
         /\ clock' = clock + SleepAfter(resp)
    /\ pc' = "returned"
    /\ UNCHANGED << argv, slack_calls, disconnected, missing_env, channels,
                    ch_idx, fetches, messages, msg_idx, urls, url_idx,
                    content, all_summaries, outcomes, article_gets, summaries,
                    date, chunks, chunk_idx, posts, raised, exit_code >>

InitGen == Init \/ InitSummarize

NextGen == Next \/ SummarizeOnly

SpecGen == InitGen /\ [][NextGen]_vars

----------------------------------------------------------------------------
(* The run when an external service may stop responding *)

\* requests.post(webhook_url, json=payload) carries no timeout: when the
\* endpoint stops responding the call never returns. (The page fetch and the
\* generation calls carry timeout=10 and timeout=30: a service that stops
\* responding makes them raise, which is their failed outcome above.)
SlackPostBlocks ==
    /\ pc = "slack_post"
    /\ pc' = "slack_blocked"
    /\ UNCHANGED << argv, slack_calls, disconnected, missing_env, channels,
                    clock, ch_idx, fetches, messages, msg_idx, urls, url_idx,
                    content, all_summaries, outcomes, gen_calls, article_gets,
                    summaries, date, chunks, chunk_idx, posts, raised,
                    exit_code >>

NextHang ==
    \/ Next
    \/ SlackPostBlocks

\* the run is a single sequential flow: whatever step is possible is taken
SpecHang == Init /\ [][NextHang]_vars /\ WF_vars(NextHang)

\* the run in which every call returns or raises, under the same scheduling
SpecLive == Init /\ [][Next]_vars /\ WF_vars(Next)

----------------------------------------------------------------------------
(* fetch_article_content on its own: any page *)

\* a text of exactly n characters that starts with kw and goes on in words
\* of six letters
KeywordText(kw, n) ==
    [ i \in 1 .. n |-> IF i <= Len(kw) THEN kw[i]
                       ELSE IF i % 7 = 0 THEN " " ELSE "w" ]

\* a text between blank lines and padding, as get_text may leave it
PaddedText(t) == << " ", "\n" >> \o t \o << " ", "\n", "\n", " " >>

SubscribeWord == << "s", "u", "b", "s", "c", "r", "i", "b", "e" >>

\* what a page may start with: nothing special, a paywall keyword in lower
\* case, in upper case, in Korean, or a keyword of several words
ArticleOpenings ==
    { << >>, SubscribeWord,
      << "S", "U", "B", "S", "C", "R", "I", "B", "E" >>,
      << "gu", "dok" >>,
      << "L", "o", "g", " ", "i", "n", " ", "t", "o", " ", "r", "e", "a", "d" >> }

\* lengths around the three thresholds of fetch_article_content
ArticleLengths == { 0, 1, 299, 300, 500, 999, 1000, 1500, 4999, 5000, 5001 }

\* extracted texts of a page, before the cleaning
ArticleInputs ==
    { KeywordText(kw, n) : kw \in ArticleOpenings, n \in ArticleLengths }
    \cup { PaddedText(KeywordText(kw, n)) : kw \in ArticleOpenings, n \in ArticleLengths }

InitArticle ==
    /\ pc = "article_only"
    /\ argv = ""
    /\ missing_env = { }
    /\ clock = StartClock
    /\ summaries = << >>
    /\ date = 0
    /\ slack_calls = 0
    /\ channels = TELEGRAM_CHANNELS
    /\ ch_idx = 1
    /\ fetches = << >>
    /\ messages = << >>
    /\ msg_idx = 1
    /\ urls = << >>
    /\ url_idx = 1
    /\ content \in ArticleInputs
    /\ all_summaries = << >>
    /\ outcomes = << >>
    /\ gen_calls = << >>
    /\ article_gets = << >>
    /\ chunks = << >>
    /\ chunk_idx = 1
    /\ posts = << >>
    /\ disconnected = "no"
    /\ raised = FALSE
    /\ exit_code = -1

\* one call of fetch_article_content outside a run: the request fails, or
\* the page is retrieved and the text in content is extracted from it
ArticleOnly ==
    /\ pc = "article_only"
    /\ \E ok \in BOOLEAN :
         LET c == fetch_article_content([ ok |-> ok, text |-> content ])
         IN  article_gets' = << [ channel |-> "", id |-> 0, url |-> << >>,
                                  ok |-> ok, returned |-> c, usable |-> Usable(c) ] >>
    /\ pc' = "returned"
    /\ UNCHANGED << argv, slack_calls, disconnected, missing_env, channels,
                    clock, ch_idx, fetches, messages, msg_idx, urls, url_idx,
                    content, all_summaries, outcomes, gen_calls, summaries,
                    date, chunks, chunk_idx, posts, raised, exit_code >>

NextArticle == ArticleOnly

SpecArticle == InitArticle /\ [][NextArticle]_vars

----------------------------------------------------------------------------
(* Properties *)

\* the configuration is valid: nothing required is missing and the channel
\* argument, if any, names a configured channel
ConfigValid ==
    /\ missing_env = { }
    /\ argv \in { "" } \cup Range(TELEGRAM_CHANNELS)

\* the fetch of channel ch in this run, and its message with the given id
FetchOf(ch) == fetches[CHOOSE i \in 1 .. Len(fetches) : fetches[i].channel = ch]
FetchedMsg(ch, id) ==
    LET res == FetchOf(ch).result
    IN  res[CHOOSE j \in 1 .. Len(res) : res[j].id = id]

\* positions of the aggregate holding an item of message id of channel ch
ItemsFor(ch, id) ==
    { i \in 1 .. Len(all_summaries) :
        /\ all_summaries[i].channel = ch
        /\ all_summaries[i].date = FetchedMsg(ch, id).date }

OutcomesFor(ch, id) ==
    { outcomes[i].state : i \in { j \in 1 .. Len(outcomes) :
                                    outcomes[j].channel = ch /\ outcomes[j].id = id } }

\* C1: when send_to_slack is handed no items, exactly one submission (a
\* "no items" notification) has been made by the time it returns.
C1_EmptyRunStillSubmits ==
    (pc = "after_slack" /\ summaries = << >>) => Len(posts) = 1

\* C2, as stated: with a valid configuration no failure of an external
\* collaborator aborts the run; every run that ends has made the delivery
\* call and ends normally.
C2_NoFailureAborts ==
    (ConfigValid /\ pc = "exited") => (slack_calls = 1 /\ exit_code = 0)

\* C2, amended: with a valid configuration a run never stops before its
\* end; once client.start() has succeeded no failure of retrieval, page
\* fetch, generation or delivery aborts it: every configured channel is
\* fetched, send_to_slack is called exactly once, and the run ends normally
\* unless client.disconnect() raises. A failed client.start() is re-raised,
\* and an exception of the constructor TelegramClient(...) leaves main()
\* before the try block (no disconnect is attempted): in both cases the run
\* ends with an error, no channel fetched and no delivery call.
C2_OnlyConnectionAborts ==
    /\ (ConfigValid /\ pc # "exited") => ENABLED Next
    /\ (ConfigValid /\ pc = "exited") =>
         IF raised \/ disconnected = "no"
           THEN fetches = << >> /\ slack_calls = 0 /\ exit_code = 1
           ELSE /\ Len(fetches) = Len(channels)
                /\ slack_calls = 1
                /\ (exit_code = 0 <=> disconnected = "ok")
                /\ (exit_code = 1 <=> disconnected = "failed")

\* a run that met a failed retrieval, a failed page fetch, a failed
\* generation call and a failed delivery, and ended normally
C2_Witness ==
    /\ ConfigValid /\ pc = "exited" /\ exit_code = 0
    /\ \E i \in 1 .. Len(fetches) : fetches[i].failed
    /\ \E i \in 1 .. Len(article_gets) : ~article_gets[i].usable
    /\ \E i \in 1 .. Len(gen_calls) : ~gen_calls[i].ok
    /\ \E i \in 1 .. Len(posts) : ~posts[i].ok

\* C3: between any two consecutive calls of the generation backend at
\* least the 4.5 s delay elapses, also when the earlier call failed.
C3_MinSpacing ==
    \A i \in 2 .. Len(gen_calls) :
        gen_calls[i].at - gen_calls[i - 1].at >= SleepTicks

\* the run goes on with the message after message id of channel ch: it is
\* the one being processed, or it has reached a terminal state
ContinuesAfter(ch, id) ==
    LET res == FetchOf(ch).result
        k == CHOOSE j \in 1 .. Len(res) : res[j].id = id
    IN  k < Len(res) =>
          \/ OutcomesFor(ch, res[k + 1].id) # { }
          \/ pc = "message" /\ channel_name = ch /\ msg_idx = k + 1

\* C4: a failed backend call in translate_to_korean returns None; the
\* message ends dropped, no item is appended for it, and processing goes on
\* with the next message.
C4_TranslateFailureDrops ==
    \A k \in 1 .. Len(gen_calls) :
        LET g == gen_calls[k]
        IN  (g.kind = "translate" /\ ~g.ok) =>
              /\ ~g.returned.present
              /\ OutcomesFor(g.channel, g.id) = { "dropped" }
              /\ ItemsFor(g.channel, g.id) = { }
              /\ ContinuesAfter(g.channel, g.id)

\* a failed translation followed by a later message that was emitted
C4_Witness ==
    \E k \in 1 .. Len(gen_calls) : \E j \in 1 .. Len(outcomes) :
        /\ gen_calls[k].kind = "translate" /\ ~gen_calls[k].ok
        /\ outcomes[j].channel = gen_calls[k].channel
        /\ outcomes[j].id > gen_calls[k].id
        /\ outcomes[j].state = "emitted"

\* the first 200 characters of a text, with an ellipsis iff it is longer
First200(text) ==
    IF Len(text) <= 200 THEN text
    ELSE [ i \in 1 .. 203 |-> IF i <= 200 THEN text[i] ELSE "." ]

\* C5: a failed backend call in summarize_with_gemini returns the first 200
\* characters of the input, with an ellipsis iff the input is longer, and in
\* a run exactly one item with that body is appended for the message.
C5_SummarizeFallback ==
    \A k \in 1 .. Len(gen_calls) :
        LET g == gen_calls[k]
        IN  (g.kind = "summarize" /\ ~g.ok) =>
              /\ g.returned = Some(First200(g.input))
              /\ g.channel \in Range(TELEGRAM_CHANNELS) =>
                   /\ OutcomesFor(g.channel, g.id) = { "emitted" }
                   /\ Cardinality(ItemsFor(g.channel, g.id)) = 1
                   /\ \A i \in ItemsFor(g.channel, g.id) :
                        all_summaries[i].summary = First200(g.input)

\* a run in which a summarization failed and its fallback was delivered
C5_Witness ==
    /\ pc = "exited"
    /\ \E k \in 1 .. Len(gen_calls) : \E i \in 1 .. Len(summaries) :
         /\ gen_calls[k].kind = "summarize" /\ ~gen_calls[k].ok
         /\ summaries[i].summary = First200(gen_calls[k].input)
         /\ Len(summaries[i].summary) = 203

\* the numbered item sections of a payload, and its link sections
ItemSections(blocks) ==
    SelectSeq(blocks, LAMBDA b : b.type = "section" /\ "idx" \in DOMAIN b)
LinkSections(blocks) ==
    SelectSeq(blocks, LAMBDA b : b.type = "section" /\ "link" \in DOMAIN b)

\* the items of summaries at positions lo .. hi that carry a link
RECURSIVE LinksOf(_, _, _)
LinksOf(ss, lo, hi) ==
    IF lo > hi THEN << >>
    ELSE (IF ss[lo].link # << >> THEN << ss[lo].link >> ELSE << >>)
         \o LinksOf(ss, lo + 1, hi)

\* payload blocks render exactly the items lo .. hi of summaries, in order
Renders(blocks, lo, hi) ==
    /\ Len(ItemSections(blocks)) = hi - lo + 1
    /\ \A j \in 1 .. (hi - lo + 1) :
         /\ ItemSections(blocks)[j].idx = lo + j - 1
         /\ ItemSections(blocks)[j].summary = summaries[lo + j - 1].summary
         /\ ItemSections(blocks)[j].time_str = strftime_HM(summaries[lo + j - 1].date)
    /\ LinkSections(blocks) = [ j \in 1 .. Len(LinksOf(summaries, lo, hi)) |->
                                 [ type |-> "section", link |-> LinksOf(summaries, lo, hi)[j] ] ]

\* C6: N >= 1 items make ceil(N/15) chunks of 1 to 15 items, all but the
\* last of exactly 15; the chunks in order are the input sequence; each
\* posted payload renders the items of its own chunk and no other; 37 items
\* give chunks of 15, 15 and 7.
C6_Chunking ==
    (pc \in { "slack_post", "after_slack" } /\ summaries # << >>) =>
      LET n == Len(summaries)
          k == Len(chunks)
      IN  /\ (k - 1) * 15 < n /\ n <= k * 15
          /\ \A c \in 1 .. k :
               /\ Len(chunks[c]) \in 1 .. 15
               /\ c < k => Len(chunks[c]) = 15
          /\ Flatten(chunks) = summaries
          /\ n = 37 => [ c \in 1 .. k |-> Len(chunks[c]) ] = << 15, 15, 7 >>
          /\ \A p \in 1 .. Len(posts) :
               Renders(posts[p].blocks, 15 * (p - 1) + 1, Min(15 * p, n))

\* 37 items were delivered as three payloads
C6_Witness ==
    pc = "after_slack" /\ Len(summaries) = 37 /\ Len(posts) = 3

\* positions of the footer blocks of a payload
Footers(blocks) == { i \in 1 .. Len(blocks) : blocks[i].type = "context" }

\* C7: the footer is in the payload of the last chunk only and reports the
\* total number of items; the header of chunk i is annotated (i/K) iff K > 1.
C7_FooterAndHeader ==
    /\ \A p \in 1 .. Len(posts) :
         LET b == posts[p].blocks
             k == Len(chunks)
         IN  /\ p = k => /\ Footers(b) = { Len(b) }
                         /\ b[Len(b)].total = Len(summaries)
             /\ p # k => Footers(b) = { }
             /\ { i \in 1 .. Len(b) : b[i].type = "header" } = { 1 }
             /\ k > 1 => b[1].annotation = << p, k >>
             /\ k = 1 => b[1].annotation = << >>
    /\ (pc = "after_slack" /\ summaries # << >>) =>
         Cardinality({ p \in 1 .. Len(posts) : Footers(posts[p].blocks) # { } }) = 1

\* three payloads, the last holding 7 items and a footer reporting 37
C7_Witness ==
    /\ pc = "after_slack" /\ Len(posts) = 3
    /\ Len(chunks[3]) = 7
    /\ posts[3].blocks[Len(posts[3].blocks)].total = 37

\* C8: chunk payloads are submitted in chunk order, each exactly once; a
\* failed submission neither stops the loop nor is retried, and
\* send_to_slack returns once every chunk has been submitted.
C8_EveryChunkSubmittedOnce ==
    /\ \A p \in 1 .. Len(posts) :
         /\ posts[p].chunk_idx = p
         /\ Renders(posts[p].blocks, 15 * (p - 1) + 1, Min(15 * p, Len(summaries)))
    /\ pc = "slack_post" =>
         /\ Len(posts) = chunk_idx - 1
         /\ chunk_idx <= Len(chunks)
         /\ ENABLED SlackPost
    /\ (pc = "after_slack" /\ summaries # << >>) => Len(posts) = Len(chunks)

\* the first of three submissions failed and the other two were made
C8_Witness ==
    /\ pc = "after_slack" /\ Len(posts) = 3
    /\ ~posts[1].ok /\ posts[2].ok /\ posts[3].ok

\* the summaries rendered by all submitted payloads, in order
RECURSIVE PostedSummaries(_)
PostedSummaries(ps) ==
    IF ps = << >> THEN << >>
    ELSE LET secs == ItemSections(Head(ps).blocks)
         IN  [ j \in 1 .. Len(secs) |-> secs[j].summary ] \o PostedSummaries(Tail(ps))

\* the run is over and had begun to fetch channels
EndedAfterFetching == pc = "exited" /\ fetches # << >>

\* C9: a channel whose retrieval fails, at lookup or while iterating,
\* contributes no item, not even from messages read before the error; the
\* run goes on with the remaining channels, in order, and delivers the
\* items of the other channels.
C9_FailedChannelContributesNothing ==
    /\ \A i \in 1 .. Len(fetches) :
         /\ fetches[i].channel = channels[i]
         /\ fetches[i].failed =>
              /\ fetches[i].result = << >>
              /\ \A j \in 1 .. Len(all_summaries) :
                   all_summaries[j].channel # fetches[i].channel
              /\ \A j \in 1 .. Len(outcomes) : outcomes[j].channel # fetches[i].channel
              /\ i < Len(channels) =>
                   \/ Len(fetches) > i
                   \/ pc = "channel_loop" /\ ch_idx = i + 1
    /\ (pc \in { "send_to_slack", "slack_post", "after_slack" } \/ EndedAfterFetching) =>
         /\ Len(fetches) = Len(channels)
         /\ summaries = all_summaries
         /\ Len(summaries) =
              Cardinality({ j \in 1 .. Len(outcomes) : outcomes[j].state = "emitted" })
    /\ (pc = "after_slack" \/ EndedAfterFetching) =>
         PostedSummaries(posts) = [ j \in 1 .. Len(summaries) |-> summaries[j].summary ]

\* the first channel failed after reading a message; the second channel's
\* items were delivered
C9_Witness ==
    /\ pc = "exited" /\ Len(fetches) = 2
    /\ fetches[1].failed /\ fetches[1].kept # << >>
    /\ ~fetches[2].failed
    /\ all_summaries # << >> /\ posts # << >>

\* C10: of the candidates a newest-first source returns, a message is in
\* the fetcher's result iff its instant lies between yesterday 00:00:00 and
\* yesterday 23:59:59 (Seoul time), both included, and its text has a
\* character that is not white space.
C10_WindowAndText ==
    \A k \in 1 .. Len(fetches) :
        LET f == fetches[k]
            today == (clock + KstOffset) \div DayTicks
            start == (today - 1) * DayTicks - KstOffset
            end == start + (24 * 3600 - 1) * 2
            InResult(id) == \E j \in 1 .. Len(f.result) : f.result[j].id = id
        IN  ~f.failed =>
              /\ f.start.utc = start /\ f.end.utc = end
              /\ \A i \in 1 .. Len(f.feed) :
                   InResult(f.feed[i].id) <=>
                     /\ start <= f.feed[i].date.utc
                     /\ f.feed[i].date.utc <= end
                     /\ \E c \in Range(f.feed[i].message) : c \notin Whitespace
              /\ \A j \in 1 .. Len(f.result) :
                   \E i \in 1 .. Len(f.feed) :
                     /\ f.feed[i].id = f.result[j].id
                     /\ f.feed[i].message = f.result[j].text
                     /\ f.feed[i].date.utc = f.result[j].date.utc

\* a message of the window's last second was kept and a blank message
\* inside the window was left out
C10_Witness ==
    /\ pc = "fetched"
    /\ \E k \in 1 .. Len(fetches) :
         LET f == fetches[k]
         IN  /\ ~f.failed /\ Len(f.feed) = 2 /\ Len(f.result) = 1
             /\ f.feed[1].date.utc = KstMidnight(2) - 2
             /\ f.result[1].id = f.feed[1].id
             /\ f.feed[2].message = << " ", "\f", "\n" >>
             /\ f.feed[2].date.utc = KstMidnight(1)

\* C11: the sequence fetch_yesterday_messages returns is ordered
\* oldest-first: of any two messages in it, the earlier one comes first.
C11_OldestFirst ==
    \A k \in 1 .. Len(fetches) :
        LET res == fetches[k].result
        IN  \A i \in 1 .. Len(res) : \A j \in (i + 1) .. Len(res) :
              res[i].date.utc <= res[j].date.utc

\* the first url of TextLinks
FirstUrlOfTextLinks ==
    << "h", "t", "t", "p", "s", ":", "/", "/", "t", ".", "m", "e", "/", "c" >>

\* the item at position i of the aggregate is the one a translated message
\* m of channel ch gives for the returned translation: its body is the
\* translation, its timestamp and channel are the message's, its link is the
\* first url of the text, or the message's own link when the text has none
IsTranslationItem(i, ch, m, translation) ==
    /\ all_summaries[i].summary = translation
    /\ all_summaries[i].channel = ch
    /\ all_summaries[i].date = m.date
    /\ m.text = TextLinks => all_summaries[i].link = FirstUrlOfTextLinks
    /\ m.text = TextPlain => all_summaries[i].link = TMePrefix \o NameChars(ch) \o << "/" >> \o str_int(m.id)

\* C12, as stated: for a translate-strategy message whose translation call
\* succeeds, exactly one item is appended, with the returned translation as
\* body, the message's channel and timestamp, and the first url of the text
\* (else the message's own link) as link.
C12_TranslatedItem ==
    \A k \in 1 .. Len(gen_calls) :
        LET g == gen_calls[k]
        IN  (g.kind = "translate" /\ g.ok) =>
              /\ OutcomesFor(g.channel, g.id) = { "emitted" }
              /\ Cardinality(ItemsFor(g.channel, g.id)) = 1
              /\ \A i \in ItemsFor(g.channel, g.id) :
                   IsTranslationItem(i, g.channel, FetchedMsg(g.channel, g.id),
                                     g.returned.value)

\* C12, amended: the item is appended when the translation call succeeds
\* and the returned text is not empty once trimmed; a call that succeeds
\* with an empty or all-white-space text drops the message like a failed
\* call, and nothing is appended for it.
C12_NonEmptyTranslationItem ==
    \A k \in 1 .. Len(gen_calls) :
        LET g == gen_calls[k]
        IN  (g.kind = "translate" /\ g.ok) =>
              IF g.returned.value # << >>
                THEN /\ OutcomesFor(g.channel, g.id) = { "emitted" }
                     /\ Cardinality(ItemsFor(g.channel, g.id)) = 1
                     /\ \A i \in ItemsFor(g.channel, g.id) :
                          IsTranslationItem(i, g.channel, FetchedMsg(g.channel, g.id),
                                            g.returned.value)
                ELSE /\ OutcomesFor(g.channel, g.id) = { "dropped" }
                     /\ ItemsFor(g.channel, g.id) = { }

\* a translated message with urls was emitted under its first url, and a
\* translation of nothing but white space was dropped
C12_Witness ==
    /\ \E i \in 1 .. Len(all_summaries) :
         /\ all_summaries[i].link = FirstUrlOfTextLinks
         /\ all_summaries[i].summary = GenTwoLines
         /\ all_summaries[i].channel = "shoalresearch"
    /\ \E k \in 1 .. Len(gen_calls) :
         /\ gen_calls[k].kind = "translate" /\ gen_calls[k].ok
         /\ gen_calls[k].returned.value = << >>
         /\ OutcomesFor(gen_calls[k].channel, gen_calls[k].id) = { "dropped" }

\* the text of a page once cleaned: without padding and blank lines
CleanedInput == IF content \in { PaddedText(KeywordText(kw, n)) :
                                   kw \in ArticleOpenings, n \in ArticleLengths }
                  THEN SubSeq(content, 3, Len(content) - 4)
                  ELSE content

\* the cleaned text names a paywall keyword, in whatever case
NamesPaywall ==
    \E kw \in ArticleOpenings \ { << >> } :
        Len(CleanedInput) >= Len(kw) /\ SubSeq(CleanedInput, 1, Len(kw)) = kw

\* C13: for a retrieved page whose cleaned text has length L,
\* fetch_article_content returns absent iff L < 300 or (a paywall keyword
\* occurs in the text, in any case, and L < 1000); otherwise it returns the
\* text cut to its first 5000 characters. 299 gives absent, 300 without
\* keyword gives 300 characters, 1500 with "subscribe" gives content, 500
\* with "subscribe" gives absent; any content returned has 300 to 5000
\* characters.
C13_ArticleGate ==
    \A k \in 1 .. Len(article_gets) :
        LET a == article_gets[k]
            L == Len(CleanedInput)
        IN  (a.channel = "" /\ a.ok) =>
              /\ ~a.returned.present <=> (L < 300 \/ (NamesPaywall /\ L < 1000))
              /\ a.returned.present =>
                   /\ Len(a.returned.value) = Min(L, 5000)
                   /\ a.returned.value = SubSeq(CleanedInput, 1, Min(L, 5000))
                   /\ Len(a.returned.value) \in 300 .. 5000
              /\ content = KeywordText(<< >>, 299) => ~a.returned.present
              /\ content = KeywordText(<< >>, 300) =>
                   a.returned.present /\ Len(a.returned.value) = 300
              /\ content = KeywordText(SubscribeWord, 1500) =>
                   a.returned.present /\ Len(a.returned.value) = 1500
              /\ content = KeywordText(SubscribeWord, 500) => ~a.returned.present

\* a page of 1500 characters naming "subscribe" was returned in full
C13_Witness ==
    /\ pc = "returned"
    /\ content = KeywordText(SubscribeWord, 1500)
    /\ article_gets # << >>
    /\ article_gets[1].ok
    /\ article_gets[1].returned.present
    /\ Len(article_gets[1].returned.value) = 1500

\* C14: when the backend answers with n non-blank lines,
\* summarize_with_gemini returns the first min(n, 3) of them, in their
\* order and joined by newlines: more than 3 are cut to the first 3, fewer
\* than 3 are returned as they are.
C14_FirstThreeLines ==
    \A k \in 1 .. Len(gen_calls) :
        LET g == gen_calls[k]
            lines == nonblank_lines(g.answer)
        IN  (g.kind = "summarize" /\ g.ok) =>
              g.returned.value = join_lines(SubSeq(lines, 1, Min(Len(lines), 3)))

\* no external service has been contacted: the source was never connected
\* to, no channel fetched, no page requested, no generation call and no
\* delivery made
NothingContacted ==
    /\ pc \in { "boot", "validate", "exited" }
    /\ disconnected = "no" /\ ~raised
    /\ fetches = << >> /\ article_gets = << >> /\ gen_calls = << >>
    /\ posts = << >> /\ slack_calls = 0

\* C15: when the channel argument names no configured channel or a required
\* configuration value is missing, the process exits with a non-zero status
\* and no external service is contacted before that; with a known channel
\* argument only that channel is processed.
C15_ConfigErrorsExitFirst ==
    /\ ~ConfigValid =>
         /\ NothingContacted
         /\ pc = "exited" => exit_code = 1
         /\ pc # "exited" => ENABLED Next
    /\ (ConfigValid /\ argv # "") =>
         /\ \A i \in 1 .. Len(fetches) : fetches[i].channel = argv
         /\ \A i \in 1 .. Len(outcomes) : outcomes[i].channel = argv
         /\ \A i \in 1 .. Len(gen_calls) : gen_calls[i].channel = argv
         /\ \A i \in 1 .. Len(article_gets) : article_gets[i].channel = argv
         /\ \A i \in 1 .. Len(all_summaries) : all_summaries[i].channel = argv
         /\ Len(fetches) <= 1
         /\ (pc = "exited" /\ ~raised /\ disconnected # "no") => Len(fetches) = 1

\* a run with a known channel argument and a missing endpoint url has
\* exited with status 1
C15_Witness ==
    /\ pc = "exited" /\ exit_code = 1
    /\ argv = "shoalresearch"
    /\ missing_env = { "SLACK_WEBHOOK_URL" }

\* C16: every external call of a run is bounded by a timeout, so a run in
\* which an external service stops responding still terminates.
C16_RunTerminates == <>(pc = "exited")

\* some page requested for message id of channel ch gave usable content
YieldedUsable(ch, id) ==
    \E i \in 1 .. Len(article_gets) :
        /\ article_gets[i].channel = ch
        /\ article_gets[i].id = id
        /\ article_gets[i].usable

\* C17: a scrape-strategy message ends dropped iff none of its links off the
\* non-scrapeable domains yields usable content; when one does, exactly one
\* item is emitted for the message, whether the generation call succeeds or
\* fails and whatever text it returns.
C17_DroppedIffNoUsableLink ==
    \A j \in 1 .. Len(outcomes) :
        LET o == outcomes[j]
        IN  process_type(o.channel) = "scrape" =>
              /\ o.state = "dropped" <=> ~YieldedUsable(o.channel, o.id)
              /\ YieldedUsable(o.channel, o.id) =>
                   Cardinality(ItemsFor(o.channel, o.id)) = 1

\* the links of TextLinks off the non-scrapeable domains, in text order
ScrapeableOfTextLinks ==
    << << "h", "t", "t", "p", "s", ":", "/", "/", "a", ".", "i", "o", "/", "1" >>,
       << "h", "t", "t", "p", ":", "/", "/", "b", ".", "i", "o", "/", "2" >> >>

\* the page requests and the summarize calls made for message id of channel ch
GetsFor(ch, id) ==
    SelectSeq(article_gets, LAMBDA a : a.channel = ch /\ a.id = id)
SummarizeCallsFor(ch, id) ==
    SelectSeq(gen_calls, LAMBDA g : g.kind = "summarize" /\ g.channel = ch /\ g.id = id)

\* C18: for a scrape-strategy message the links are tried in the order of
\* the text; fetch_article_content is never called for a link on x.com,
\* twitter.com or t.me, nor for a link after the first whose fetch gives
\* usable content; summarize_with_gemini is called at most once per message,
\* on that first usable content, and the emitted item's link is that link.
C18_FirstUsableLinkWins ==
    \A f \in 1 .. Len(fetches) : \A r \in 1 .. Len(fetches[f].result) :
        LET ch == fetches[f].channel
            m == fetches[f].result[r]
            expected == IF m.text = TextLinks THEN ScrapeableOfTextLinks ELSE << >>
            gets == GetsFor(ch, m.id)
            calls == SummarizeCallsFor(ch, m.id)
        IN  process_type(ch) = "scrape" =>
              /\ Len(gets) <= Len(expected)
              /\ \A i \in 1 .. Len(gets) :
                   /\ gets[i].url = expected[i]
                   /\ i < Len(gets) => ~gets[i].usable
              /\ Len(calls) <= 1
              /\ Len(calls) = 1 =>
                   /\ gets # << >>
                   /\ gets[Len(gets)].usable
                   /\ calls[1].input = gets[Len(gets)].returned.value
              /\ OutcomesFor(ch, m.id) # { } =>
                   /\ Len(calls) = 1 <=> (gets # << >> /\ gets[Len(gets)].usable)
                   /\ Len(calls) = 0 => Len(gets) = Len(expected)
              /\ \A i \in ItemsFor(ch, m.id) :
                   /\ gets # << >>
                   /\ gets[Len(gets)].usable
                   /\ all_summaries[i].link = gets[Len(gets)].url

\* the first scrapeable link failed, the second gave usable content that
\* was summarized once, and the item carries the second link
C18_Witness ==
    \E i \in 1 .. Len(all_summaries) :
        /\ all_summaries[i].channel = "ahboyashreads"
        /\ all_summaries[i].link = ScrapeableOfTextLinks[2]
        /\ Len(article_gets) = 2
        /\ ~article_gets[1].usable /\ article_gets[1].url = ScrapeableOfTextLinks[1]
        /\ article_gets[2].usable /\ article_gets[2].url = ScrapeableOfTextLinks[2]
        /\ Len(gen_calls) = 1

\* the messages the fetches of the run returned, in the order the run
\* processes them: channel after channel, each in the order of its result
AllFetched ==
    Flatten([ f \in 1 .. Len(fetches) |->
                [ r \in 1 .. Len(fetches[f].result) |->
                    [ channel |-> fetches[f].channel,
                      id |-> fetches[f].result[r].id,
                      date |-> fetches[f].result[r].date ] ] ])

\* the fetched messages that have ended emitted, in processing order
EmittedMsgs ==
    LET ended == [ j \in 1 .. Min(Len(outcomes), Len(AllFetched)) |->
                     [ msg |-> AllFetched[j], state |-> outcomes[j].state ] ]
        kept == SelectSeq(ended, LAMBDA e : e.state = "emitted")
    IN  [ i \in 1 .. Len(kept) |-> kept[i].msg ]

\* position of a channel in the configuration
ConfigOrder(ch) == CHOOSE i \in 1 .. Len(TELEGRAM_CHANNELS) : TELEGRAM_CHANNELS[i] = ch

\* the channel loop of the run is over
ChannelsDone ==
    \/ pc \in { "send_to_slack", "slack_post", "after_slack" }
    \/ pc = "exited" /\ ConfigValid /\ ~raised

\* C19: every fetched message reaches exactly one terminal state, emitted or
\* dropped, and yields at most one item; every item of the aggregate carries
\* the timestamp and channel of the one fetched message it was emitted for;
\* the aggregate is in channel configuration order, then in the order the
\* messages of a channel were processed.
C19_OneItemPerMessageInOrder ==
    /\ Len(outcomes) <= Len(AllFetched)
    /\ \A j \in 1 .. Len(outcomes) :
         /\ outcomes[j].channel = AllFetched[j].channel
         /\ outcomes[j].id = AllFetched[j].id
         /\ outcomes[j].state \in { "emitted", "dropped" }
    /\ ChannelsDone => Len(outcomes) = Len(AllFetched)
    /\ Len(all_summaries) = Len(EmittedMsgs)
    /\ \A i \in 1 .. Len(all_summaries) :
         /\ all_summaries[i].channel = EmittedMsgs[i].channel
         /\ all_summaries[i].date = EmittedMsgs[i].date
    /\ \A i \in 1 .. Len(all_summaries) : \A j \in (i + 1) .. Len(all_summaries) :
         ConfigOrder(all_summaries[i].channel) <= ConfigOrder(all_summaries[j].channel)

\* a finished run over both channels: of the two messages of the first
\* channel the first was dropped and the second emitted, and the one message
\* of the second channel was emitted
C19_Witness ==
    /\ pc = "exited" /\ ~raised
    /\ Len(AllFetched) = 3 /\ Len(outcomes) = 3
    /\ outcomes[1].state = "dropped" /\ outcomes[1].channel = "ahboyashreads"
    /\ outcomes[2].state = "emitted" /\ outcomes[2].channel = "ahboyashreads"
    /\ outcomes[3].state = "emitted" /\ outcomes[3].channel = "shoalresearch"
    /\ Len(all_summaries) = 2

\* C20: in every delivered chunk the channel named in the header is the
\* originating channel of every item rendered in that chunk, for runs over
\* any configured channel set.
C20_HeaderNamesItemsChannel ==
    \A p \in 1 .. Len(posts) :
        \A i \in (15 * (p - 1) + 1) .. Min(15 * p, Len(summaries)) :
            posts[p].blocks[1].channel =
              (CASE summaries[i].channel = "ahboyashreads" -> "Ahboyreads"
                 [] summaries[i].channel = "shoalresearch" -> "Shoal Research")

\* C21: every payload submitted to the webhook holds at most 50 blocks,
\* header, dividers, item blocks, link blocks and footer counted together,
\* for any number of items and whether or not an item has a link block.
C21_AtMostFiftyBlocks ==
    \A p \in 1 .. Len(posts) :
        /\ Len(posts[p].blocks) <= 50
        /\ Len(posts[p].blocks) =
             2 + Len(ItemSections(posts[p].blocks)) + Len(LinkSections(posts[p].blocks))
               + (Len(ItemSections(posts[p].blocks)) - 1)
               + Cardinality(Footers(posts[p].blocks))

\* the largest payload: one chunk of 15 items, each with a link, and the
\* footer, 47 blocks in all
C21_Witness ==
    /\ pc = "after_slack"
    /\ Len(summaries) = 15 /\ Len(posts) = 1
    /\ Len(LinkSections(posts[1].blocks)) = 15
    /\ Len(posts[1].blocks) = 47

\* C22: within one run every channel is filtered against the same window,
\* and the date label handed to send_to_slack names that window's day, also
\* when the wall clock crosses midnight in Seoul during the run.
C22_OneWindowPerRun ==
    /\ \A i \in 1 .. Len(fetches) : \A j \in 1 .. Len(fetches) :
         /\ fetches[i].start = fetches[j].start
         /\ fetches[i].end = fetches[j].end
    /\ slack_calls = 1 =>
         \A i \in 1 .. Len(fetches) :
             date = (fetches[i].start.utc + KstOffset) \div DayTicks

====
